---------------------------- MODULE Spec2Model ----------------------------
(***************************************************************************)
(* Weather emergency workflow (Agents.py, agent_web.py, main.py).          *)
(*                                                                         *)
(* A run walks a LangGraph StateGraph(WeatherState) from get_weather to    *)
(* END, one node per step.  Two graphs exist: the blocking graph of        *)
(* Agents.py and the web graph that run_agent_web builds.  The web graph   *)
(* freezes low/medium runs into _pending_verifications and                 *)
(* continue_with_approval resumes them.                                    *)
(*                                                                         *)
(* Text that the code trims, case-folds or searches (severity and          *)
(* disaster_type) is a sequence of one-character strings, so strip(),      *)
(* lower() and `in` are computed as Python computes them.  Trace messages  *)
(* are strings; the text an f-string interpolates from an exception, a     *)
(* model reply or datetime.now() is left as its placeholder.               *)
(***************************************************************************)
EXTENDS Integers, Sequences, FiniteSets, TLC

\* ------------------------------------------------------------------ bounds
MaxRuns == 2        \* runs started in a behaviour
MaxCalls == 2       \* continue_with_approval invocations in a behaviour
MaxFaults == 1      \* external calls that fail in a behaviour

Calls == 1..MaxCalls
Cities == {"London"}
Modes == {"blocking", "web"}

\* ------------------------------------------------------- Python str helpers
UpperChars == <<"A","B","C","D","E","F","G","H","I","J","K","L","M",
                "N","O","P","Q","R","S","T","U","V","W","X","Y","Z">>
LowerChars == <<"a","b","c","d","e","f","g","h","i","j","k","l","m",
                "n","o","p","q","r","s","t","u","v","w","x","y","z">>
Whitespace == {" ", "\n", "\t"}

LowerChar(c) ==
    IF \E i \in 1..Len(UpperChars) : UpperChars[i] = c
    THEN LowerChars[CHOOSE i \in 1..Len(UpperChars) : UpperChars[i] = c]
    ELSE c

\* str.lower()
Lower(s) == [i \in 1..Len(s) |-> LowerChar(s[i])]

RECURSIVE LStrip(_)
LStrip(s) ==
    IF s # <<>> /\ Head(s) \in Whitespace THEN LStrip(Tail(s)) ELSE s

RECURSIVE RStrip(_)
RStrip(s) ==
    IF s # <<>> /\ s[Len(s)] \in Whitespace
    THEN RStrip(SubSeq(s, 1, Len(s) - 1))
    ELSE s

\* str.strip()
Strip(s) == RStrip(LStrip(s))

\* `sub in s` on strings
Contains(sub, s) ==
    \E i \in 1..(Len(s) - Len(sub) + 1) : SubSeq(s, i, i + Len(sub) - 1) = sub

\* str(msg) of a SystemMessage, as used by run_agent_web and handle_approval
StrOfMessage(m) == "content='" \o m \o "' additional_kwargs={} response_metadata={}"

Range(f) == {f[i] : i \in DOMAIN f}

IsPrefix(s, t) == Len(s) <= Len(t) /\ SubSeq(t, 1, Len(s)) = s

\* dict.get(key, default)
Get(d, k, default) == IF k \in DOMAIN d THEN d[k] ELSE default

\* {**d, **upd}
Merge(d, upd) == upd @@ d

\* ------------------------------------------------------------ text values
sCritical == <<"C","r","i","t","i","c","a","l">>
sHigh == <<"H","i","g","h">>
sMedium == <<"M","e","d","i","u","m">>
sLowPadded == <<" ","L","O","W","\n">>
sEmpty == <<>>
sAssessmentFailed ==
    <<"A","s","s","e","s","s","m","e","n","t"," ","F","a","i","l","e","d">>
sFlood == <<"F","l","o","o","d">>
sHeatwave == <<"H","e","a","t","w","a","v","e">>
sAnalysisFailed ==
    <<"A","n","a","l","y","s","i","s"," ","F","a","i","l","e","d">>

kwCritical == <<"c","r","i","t","i","c","a","l">>
kwHigh == <<"h","i","g","h">>
kwMedium == <<"m","e","d","i","u","m">>
kwLow == <<"l","o","w">>
kwFlood == <<"f","l","o","o","d">>
kwStorm == <<"s","t","o","r","m">>

\* What the model may answer in a run (any text; these are the cases kept).
SeverityReplies == {sCritical, sHigh, sMedium, sLowPadded}
DisasterReplies == {sFlood, sHeatwave}

\* ------------------------------------------------------------ WeatherState
\* The keys StateGraph(WeatherState) makes channels for.  A key a node
\* returns, or the caller passes to invoke, that is not one of these is
\* not written to the graph state.
SchemaKeys ==
    {"city", "weather_data", "disaster_type", "severity", "response",
     "messages", "alerts", "human_approved"}

\* The write of a node's returned dict (or of invoke's input) to the channels.
ChannelWrite(d) == [k \in (DOMAIN d) \cap SchemaKeys |-> d[k]]

NoData == [k \in {} |-> "N/A"]
WeatherKeys ==
    {"weather", "wind_speed", "cloud_cover", "sea_level", "temperature",
     "humidity", "pressure"}
Reading ==
    [weather |-> "light rain", wind_speed |-> "4.1", cloud_cover |-> "75",
     sea_level |-> "1012", temperature |-> "18.4", humidity |-> "81",
     pressure |-> "1012"]
error_data == [k \in WeatherKeys |-> "N/A"]

\* Python's True, False and None as the values of human_approved and
\* needs_approval.
True == "True"
False == "False"
None == "None"
PyBool(b) == IF b THEN True ELSE False
\* Python truthiness of such a value
Truthy(v) == v = True

\* verification_id None, and a minted id f"{city}_{int(time.time() * 1000)}"
NoToken == <<>>
Token(city, ms) == <<city, ms>>
\* The ids a caller may present: those the runs can mint, and one more.
Tokens == {Token(c, ms) : c \in Cities, ms \in 0..MaxRuns}


\* ------------------------------------------------------------------ stages
Say(state, text) == Append(state.messages, text)

\* A fetch stage that leaves the reading as it was when the provider fails.
get_weather_data_keeps_reading(state, ok) ==
    IF ok
    THEN Merge(state,
           [weather_data |-> Reading,
            messages |-> Say(state, "Weather data fetched successfully for "
                                     \o state.city)])
    ELSE Merge(state,
           [messages |-> Say(state, "Failed to fetch weather data for "
                                     \o state.city \o ": {e}")])

get_weather_data(state, ok) ==
    IF ok
    THEN Merge(state,
           [weather_data |-> Reading,
            messages |-> Say(state, "Weather data fetched successfully for "
                                     \o state.city)])
    ELSE Merge(state,
           [weather_data |-> error_data,
            messages |-> Say(state, "Failed to fetch weather data for "
                                     \o state.city \o ": {e}")])

analyze_disaster_type(state, ok, reply) ==
    IF ok
    THEN Merge(state,
           [disaster_type |-> reply,
            messages |-> Say(state, "Disaster type identified: {disaster_type}")])
    ELSE Merge(state,
           [disaster_type |-> sAnalysisFailed,
            messages |-> Say(state, "Failed to analyze disaster type: {e}")])

\* An assessment stage that reports its failure and sets no sentinel.
assess_severity_no_sentinel(state, ok, reply) ==
    IF ok
    THEN Merge(state,
           [severity |-> reply,
            messages |-> Say(state, "Severity assessed as: {severity}")])
    ELSE Merge(state,
           [messages |-> Say(state, "Failed to assess severity: {e}")])

assess_severity(state, ok, reply) ==
    IF ok
    THEN Merge(state,
           [severity |-> reply,
            messages |-> Say(state, "Severity assessed as: {severity}")])
    ELSE Merge(state,
           [severity |-> sAssessmentFailed,
            messages |-> Say(state, "Failed to assess severity: {e}")])

emergency_response(state, ok) ==
    IF ok
    THEN Merge(state,
           [response |-> "emergency plan",
            messages |-> Say(state, "Emergency response plan generated")])
    ELSE Merge(state,
           [response |-> "Failed to generate response plan",
            messages |-> Say(state, "Failed to generate emergency response: {e}")])

civil_defense_response(state, ok) ==
    IF ok
    THEN Merge(state,
           [response |-> "civil defense plan",
            messages |-> Say(state, "Civil defense response plan generated")])
    ELSE Merge(state,
           [response |-> "Failed to generate response plan",
            messages |-> Say(state, "Failed to generate civil defense response: {e}")])

public_works_response(state, ok) ==
    IF ok
    THEN Merge(state,
           [response |-> "public works plan",
            messages |-> Say(state, "Public works response plan generated")])
    ELSE Merge(state,
           [response |-> "Failed to generate response plan",
            messages |-> Say(state, "Failed to generate public works response: {e}")])

\* The record data_logging writes to disaster_log.txt, its timestamp aside
log_data(state) ==
    [city |-> state.city,
     weather_data |-> state.weather_data,
     disaster_type |-> state.disaster_type,
     severity |-> state.severity,
     response |-> state.response]

data_logging(state, ok) ==
    IF ok
    THEN Merge(state, [messages |-> Say(state, "Data logged successfully")])
    ELSE Merge(state, [messages |-> Say(state, "Failed to log data: {e}")])

\* severity = state["severity"].strip().lower(); severity in ["low", "medium"]
NeedsHuman(state) == Lower(Strip(state.severity)) \in {kwLow, kwMedium}

\* What the operator types: input().lower().strip()
yes == <<"y">>
no == <<"n">>
\* No line read from the operator (web graph, or no prompt reached yet).
NoInput == <<>>
OperatorInputs == {<<"y">>, <<"N", " ">>, <<"o", "k">>}
\* input() raising instead of returning a line (EOFError on a closed stdin)
InputRaises == <<"EOFError">>
ValidInput(typed) == Strip(Lower(typed)) \in {yes, no}

\* A verification stage that approves whatever the operator answers.
get_human_verification_approves(state, typed) ==
    Merge(state,
      [human_approved |-> True,
       messages |-> Say(state, "Human verification: Approved")])

\* Blocking graph.  Called once the operator's line is a valid one.
get_human_verification(state, typed) ==
    IF NeedsHuman(state)
    THEN LET approved == Strip(Lower(typed)) = yes
         IN  Merge(state,
               [human_approved |-> PyBool(approved),
                messages |-> Say(state,
                    IF approved THEN "Human verification: Approved"
                                ELSE "Human verification: Rejected")])
    ELSE Merge(state,
           [human_approved |-> True,
            messages |-> Say(state, "Auto-approved {severity} severity alert")])

\* A verification stage that flags the approval as needed and names no id.
get_human_verification_web_no_id(state, now) ==
    Merge(state,
      [human_approved |-> None,
       needs_approval |-> PyBool(NeedsHuman(state)),
       messages |-> Say(state,
           "Human verification required for low/medium severity alert")])

\* Web graph.  The dict the node returns; the store write is Stored below.
get_human_verification_web(state, now) ==
    IF NeedsHuman(state)
    THEN Merge(state,
           [human_approved |-> None,
            verification_id |-> Token(state.city, now),
            needs_approval |-> True,
            messages |-> Say(state,
                "Human verification required for low/medium severity alert")])
    ELSE Merge(state,
           [human_approved |-> True,
            needs_approval |-> False,
            messages |-> Say(state, "Auto-approved {severity} severity alert")])

\* _pending_verifications[verification_id] = state
Stored(store, state, now) ==
    IF NeedsHuman(state)
    THEN (Token(state.city, now) :> state) @@ store
    ELSE store

wait_for_approval(state) == state

\* f"Email alert sent: {datetime.now()}"
AlertRecord(now) == <<"Email alert sent: ", now>>

\* A notify stage that records the alert before it knows the outcome.
send_email_alert_records_first(state, ok, now) ==
    Merge(state,
      [messages |-> Say(state, IF ok
            THEN "Successfully sent weather alert email for " \o state.city
            ELSE "Failed to send email alert: {e}"),
       alerts |-> Append(state.alerts, AlertRecord(now))])

\* A notify stage that says nothing of a failed dispatch.
send_email_alert_silent(state, ok, now) ==
    IF ok
    THEN Merge(state,
           [messages |-> Say(state, "Successfully sent weather alert email for "
                                     \o state.city),
            alerts |-> Append(state.alerts, AlertRecord(now))])
    ELSE state

\* A notify stage that writes the time of the dispatch into the trace.
send_email_alert_stamps_trace(state, ok, now) ==
    IF ok
    THEN Merge(state,
           [messages |-> Say(state, "Successfully sent weather alert email for "
                                     \o state.city \o " at " \o ToString(now)),
            alerts |-> Append(state.alerts, AlertRecord(now))])
    ELSE Merge(state,
           [messages |-> Say(state, "Failed to send email alert: {e}")])

send_email_alert(state, ok, now) ==
    IF ok
    THEN Merge(state,
           [messages |-> Say(state, "Successfully sent weather alert email for "
                                     \o state.city),
            alerts |-> Append(state.alerts, AlertRecord(now))])
    ELSE Merge(state,
           [messages |-> Say(state, "Failed to send email alert: {e}")])

\* A reject stage that records an alert all the same.
handle_no_approval_alerts(state) ==
    Merge(state,
      [messages |-> Say(state, "Alert not sent for " \o state.city),
       alerts |-> Append(state.alerts, AlertRecord(0))])

handle_no_approval(state) ==
    Merge(state,
      [messages |-> Say(state, "Alert not sent for " \o state.city
          \o " - Weather severity level '{severity}' was deemed non-critical "
          \o "by human operator and verification was rejected.")])

\* ----------------------------------------------------------------- routers
\* A router that looks at the disaster type first and does not trim.
route_response_disaster_first(state) ==
    LET disaster == Lower(state.disaster_type)
        severity == Lower(state.severity)
    IN  IF Contains(kwFlood, disaster) \/ Contains(kwStorm, disaster)
        THEN "public_works_response"
        ELSE IF severity \in {kwCritical, kwHigh}
             THEN "emergency_response"
             ELSE "civil_defense_response"

\* A router that sends a critical or high severity straight to the notify
\* stage (the string left after the return at line 357).
route_response_skips_plan(state) ==
    LET disaster == Lower(Strip(state.disaster_type))
        severity == Lower(Strip(state.severity))
    IN  IF severity \in {kwCritical, kwHigh}
        THEN "send_email_alert"
        ELSE IF Contains(kwFlood, disaster) \/ Contains(kwStorm, disaster)
             THEN "public_works_response"
             ELSE "civil_defense_response"

route_response(state) ==
    LET disaster == Lower(Strip(state.disaster_type))
        severity == Lower(Strip(state.severity))
    IN  IF severity \in {kwCritical, kwHigh}
        THEN "emergency_response"
        ELSE IF Contains(kwFlood, disaster) \/ Contains(kwStorm, disaster)
             THEN "public_works_response"
             ELSE "civil_defense_response"

\* A blocking router that can also name the park node of the web graph.
verify_approval_router_parks(state) ==
    IF state.human_approved = None THEN "wait_for_approval"
    ELSE IF Truthy(state.human_approved) THEN "send_email_alert"
                                         ELSE "handle_no_approval"

verify_approval_router(state) ==
    IF Truthy(state.human_approved) THEN "send_email_alert"
                                    ELSE "handle_no_approval"

\* A web router that parks whenever approval is flagged as needed.
verify_approval_router_web_parks(state) ==
    IF Truthy(Get(state, "needs_approval", None))
    THEN "wait_for_approval"
    ELSE IF Truthy(Get(state, "human_approved", None))
         THEN "send_email_alert"
         ELSE "handle_no_approval"

\* A web router that takes a pending approval for an approval.
verify_approval_router_web_notifies(state) ==
    IF Truthy(Get(state, "needs_approval", None))
       /\ Get(state, "human_approved", None) = None
    THEN "wait_for_approval"
    ELSE IF Get(state, "human_approved", None) \in {True, None}
         THEN "send_email_alert"
         ELSE "handle_no_approval"

verify_approval_router_web(state) ==
    IF Truthy(Get(state, "needs_approval", None))
       /\ Get(state, "human_approved", None) = None
    THEN "wait_for_approval"
    ELSE IF Truthy(Get(state, "human_approved", None))
         THEN "send_email_alert"
         ELSE "handle_no_approval"

\* ------------------------------------------------------------------- graph
END == "__end__"
Nodes ==
    {"get_weather", "analyze_disaster", "assess_severity", "data_logging",
     "emergency_response", "civil_defense_response", "public_works_response",
     "get_human_verification", "send_email_alert", "handle_no_approval"}
WebNodes == Nodes \cup {"wait_for_approval"}

\* A wiring in which the emergency plan, too, goes to verification.
NextNode_verifies_all(m, node, state) ==
    CASE node = "get_weather" -> "analyze_disaster"
      [] node = "analyze_disaster" -> "assess_severity"
      [] node = "assess_severity" -> "data_logging"
      [] node = "data_logging" -> route_response(state)
      [] node = "civil_defense_response" -> "get_human_verification"
      [] node = "public_works_response" -> "get_human_verification"
      [] node = "get_human_verification" ->
            IF m = "web" THEN verify_approval_router_web(state)
                         ELSE verify_approval_router(state)
      [] node = "emergency_response" -> "get_human_verification"
      [] node = "send_email_alert" -> END
      [] node = "handle_no_approval" -> END
      [] node = "wait_for_approval" -> END

\* add_edge / add_conditional_edges of the graph of mode m, evaluated on the
\* state the node has just written.
NextNode(m, node, state) ==
    CASE node = "get_weather" -> "analyze_disaster"
      [] node = "analyze_disaster" -> "assess_severity"
      [] node = "assess_severity" -> "data_logging"
      [] node = "data_logging" -> route_response(state)
      [] node = "civil_defense_response" -> "get_human_verification"
      [] node = "public_works_response" -> "get_human_verification"
      [] node = "get_human_verification" ->
            IF m = "web" THEN verify_approval_router_web(state)
                         ELSE verify_approval_router(state)
      [] node = "emergency_response" -> "send_email_alert"
      [] node = "send_email_alert" -> END
      [] node = "handle_no_approval" -> END
      [] node = "wait_for_approval" -> END

\* The dict node `node` of the graph of mode m returns.
RunNode(m, node, state, ok, reply, typed, now) ==
    CASE node = "get_weather" -> get_weather_data(state, ok)
      [] node = "analyze_disaster" -> analyze_disaster_type(state, ok, reply)
      [] node = "assess_severity" -> assess_severity(state, ok, reply)
      [] node = "data_logging" -> data_logging(state, ok)
      [] node = "emergency_response" -> emergency_response(state, ok)
      [] node = "civil_defense_response" -> civil_defense_response(state, ok)
      [] node = "public_works_response" -> public_works_response(state, ok)
      [] node = "get_human_verification" ->
            IF m = "web" THEN get_human_verification_web(state, now)
                         ELSE get_human_verification(state, typed)
      [] node = "send_email_alert" -> send_email_alert(state, ok, now)
      [] node = "handle_no_approval" -> handle_no_approval(state)
      [] node = "wait_for_approval" -> wait_for_approval(state)

\* The nodes whose body makes a call that can fail.
Fallible ==
    {"get_weather", "analyze_disaster", "assess_severity", "data_logging",
     "emergency_response", "civil_defense_response", "public_works_response",
     "send_email_alert"}

Replies(node) ==
    CASE node = "analyze_disaster" -> DisasterReplies
      [] node = "assess_severity" -> SeverityReplies
      [] OTHER -> {sEmpty}

\* invoke's input: the dict run_weather_emergency_system or run_agent_web builds
initial_state(m, city) ==
    LET base == [city |-> city, weather_data |-> NoData,
                 disaster_type |-> sEmpty, severity |-> sEmpty,
                 response |-> "", messages |-> <<>>, alerts |-> <<>>,
                 human_approved |-> False]
    IN  IF m = "web"
        THEN Merge(base, [needs_approval |-> False, verification_id |-> NoToken])
        ELSE Merge(base, [social_media_reports |-> <<>>])

\* What run_agent_web returns from the final graph state
web_result(city, res) ==
    LET needs_approval == Get(res, "needs_approval", False)
        verification_id == Get(res, "verification_id", NoToken)
        strs == [i \in DOMAIN res.messages |-> StrOfMessage(res.messages[i])]
    IN  IF Truthy(needs_approval)
        THEN [city |-> Get(res, "city", city),
              weather_data |-> res.weather_data,
              disaster_type |-> res.disaster_type,
              severity |-> res.severity,
              response |-> res.response,
              needs_approval |-> True,
              verification_id |-> verification_id,
              messages |-> strs,
              alerts |-> res.alerts]
        ELSE [city |-> Get(res, "city", city),
              weather_data |-> res.weather_data,
              disaster_type |-> res.disaster_type,
              severity |-> res.severity,
              response |-> res.response,
              needs_approval |-> False,
              verification_id |-> NoToken,
              messages |-> strs,
              alerts |-> res.alerts,
              email_sent |-> "send_email_alert" \in Range(strs)]

\* What handle_approval answers once continue_with_approval has returned
\* res (the leading emoji of the messages is left out)
handle_approval(approved, res) ==
    LET msgs == Get(res, "messages", <<>>)
        strs == [i \in DOMAIN msgs |-> StrOfMessage(msgs[i])]
        email_sent == "send_email_alert" \in Range(strs)
    IN  [success |-> TRUE,
         message |->
            IF Truthy(approved) /\ email_sent
            THEN "Email alert sent successfully!"
            ELSE IF Truthy(approved)
                 THEN "Approval granted, but email sending encountered an issue."
                 ELSE "Approval rejected. Email alert not sent.",
         email_sent |-> email_sent,
         city |-> Get(res, "city", "Unknown")]

\* ------------------------------------------------------------------- state
VARIABLES
    pc,             \* the run in hand: "idle", the node about to run, or END
    mode,           \* which graph it walks
    st,             \* its graph state (the channels' values)
    path,           \* the nodes it has executed, in order
    result,         \* what it returned to its caller
    minted,         \* the verification_id it stored its state under
    operator,       \* the operator's valid answer to it, blocking graph
    heard,          \* what the last input() of the run gave
    started,        \* runs started so far
    issued,         \* verification_ids stored by the runs before this one
    pending,        \* _pending_verifications
    clock,          \* int(time.time() * 1000)
    faults,         \* failures of external calls so far
    resumed,        \* continue_with_approval invocations so far
    call,           \* the invocations in progress or just finished
    traces,         \* verification_id -> the messages its run ended with
    decided,        \* verification_id -> how many decisions were given on
                    \* the state stored under it since it was stored
    probe,          \* the router inputs under test (router check only)
    twin            \* a second run on the same inputs (determinism check only)

runvars == <<pc, mode, st, path, result, minted, operator, heard, started,
            issued>>
vars == <<pc, mode, st, path, result, minted, operator, heard, started, issued,
          pending, clock, faults, resumed, call, traces, decided, probe, twin>>

NoResult == NoData
NoState == NoData

IdleCall ==
    [pc |-> "idle", verification_id |-> NoToken, approved |-> False,
     frozen |-> NoState, state |-> NoState, ran |-> "none",
     dispatched |-> "none", status |-> 0]

Init ==
    /\ pc = "idle"
    /\ mode = "web"
    /\ st = NoState
    /\ path = <<>>
    /\ result = NoResult
    /\ minted = NoToken
    /\ operator = NoInput
    /\ heard = NoInput
    /\ started = 0
    /\ issued = {}
    /\ pending = NoData
    /\ clock = 0
    /\ faults = 0
    /\ resumed = 0
    /\ call = [c \in Calls |-> IdleCall]
    /\ traces = NoData
    /\ decided = NoData
    /\ probe = NoData
    /\ twin = NoData

Finished == {"returned", "ValueError", "KeyError"}
\* The caller of a finished invocation has its answer; the slot is free.
Deliver(cs) == [c \in Calls |-> IF cs[c].pc \in Finished THEN IdleCall ELSE cs[c]]

RunActive == pc \in WebNodes
CallActive(c) == call[c].pc \in {"read", "stage", "delete"}
\* One request at a time: main.py's handlers are coroutines that call the
\* agent synchronously, and main() of Agents.py loops over the cities.
Quiet == ~RunActive /\ \A c \in Calls : ~CallActive(c)

\* ----------------------------------------------------------------- actions
\* get_human_verification_web reads the clock when it mints an id.  Time
\* passes between steps and is observed where it is read: the first reading
\* is millisecond 0, a later one is the same millisecond or the next.
ReadsClock(m, node, state) ==
    m = "web" /\ node = "get_human_verification" /\ NeedsHuman(state)

Times(reads) == IF reads /\ issued # {} THEN {clock, clock + 1} ELSE {clock}

\* The blocking get_human_verification prompts the operator.
Asks(m, node, state) ==
    m = "blocking" /\ node = "get_human_verification" /\ NeedsHuman(state)

Typed(asks) == IF asks THEN OperatorInputs \cup {InputRaises} ELSE {yes}

\* Whether the node's external call succeeds; at most MaxFaults fail.
Outcomes(node) ==
    IF node \in Fallible /\ faults < MaxFaults THEN {TRUE, FALSE} ELSE {TRUE}

\* run_weather_emergency_system(city) / run_agent_web(city) up to app.invoke:
\* the input is written to the channels and the entry point is scheduled.
StartAnalysis(m, city) ==
    /\ ~RunActive
    /\ started < MaxRuns
    /\ started' = started + 1
    /\ pc' = "get_weather"
    /\ mode' = m
    /\ st' = ChannelWrite(initial_state(m, city))
    /\ path' = <<>>
    /\ result' = NoResult
    /\ minted' = NoToken
    /\ operator' = NoInput
    /\ heard' = NoInput
    /\ issued' = IF minted = NoToken THEN issued ELSE issued \cup {minted}
    /\ call' = Deliver(call)
    /\ UNCHANGED <<pending, clock, faults, resumed, traces, decided, probe, twin>>

\* One superstep of app.invoke: the node runs, its dict is written to the
\* channels, the edge out of it is followed; on END the caller's wrapper
\* builds its return value.
Step(ok, reply, typed, now) ==
    /\ RunActive
    /\ LET asks == Asks(mode, pc, st)
       IN  IF asks /\ (typed = InputRaises \/ ~ValidInput(typed))
           THEN \* the except branch or the else branch: the input loop
                \* prints its hint and goes round again
                /\ heard' = typed
                /\ UNCHANGED <<pc, mode, st, path, result, minted, operator,
                               started, issued, pending, clock, faults,
                               resumed, call, traces, decided, probe, twin>>
           ELSE \* the node's dict and the edge taken are computed once
                \E out \in {ChannelWrite(RunNode(mode, pc, st, ok, reply, typed, now))} :
                \E nxt \in {NextNode(mode, pc, out)} :
                LET stores == mode = "web" /\ pc = "get_human_verification"
                IN  /\ st' = out
                    /\ pc' = nxt
                    /\ path' = Append(path, pc)
                    /\ pending' = IF stores THEN Stored(pending, st, now)
                                            ELSE pending
                    /\ minted' = IF stores /\ NeedsHuman(st)
                                 THEN Token(st.city, now) ELSE minted
                    /\ operator' = IF asks THEN Strip(Lower(typed)) ELSE operator
                    /\ heard' = IF asks THEN typed ELSE heard
                    /\ faults' = IF ok THEN faults ELSE faults + 1
                    /\ result' = IF nxt # END THEN result
                                 ELSE IF mode = "web" THEN web_result(out.city, out)
                                 ELSE out
                    /\ clock' = now
                    /\ traces' = IF nxt = END /\ minted # NoToken
                                 THEN (minted :> out.messages) @@ traces
                                 ELSE traces
                    /\ decided' = IF stores /\ NeedsHuman(st)
                                  THEN (Token(st.city, now) :> 0) @@ decided
                                  ELSE decided
                    /\ UNCHANGED <<mode, started, issued, resumed, call, probe, twin>>

\* A membership test that lets every id through.
FoundAlways(store, verification_id) == verification_id \in Tokens

\* verification_id in _pending_verifications
Found(store, verification_id) == verification_id \in DOMAIN store

\* A clean-up that leaves the entry in the store.
DeletedNothing(store, verification_id) == store

\* A clean-up that empties the store.
DeletedEverything(store, verification_id) ==
    [t \in {} |-> store[t]]

\* del _pending_verifications[verification_id]
Deleted(store, verification_id) ==
    [t \in DOMAIN store \ {verification_id} |-> store[t]]

\* continue_with_approval(verification_id, approved), line 102
ResumeTest(c, verification_id, approved) ==
    /\ resumed < MaxCalls
    /\ resumed' = resumed + 1
    /\ Deliver(call)[c].pc = "idle"
    /\ \A d \in Calls : d < c => Deliver(call)[d].pc # "idle"
    /\ call' = [Deliver(call) EXCEPT ![c] =
                  IF Found(pending, verification_id)
                  THEN [@ EXCEPT !.pc = "read",
                                 !.verification_id = verification_id,
                                 !.approved = PyBool(approved)]
                  ELSE [@ EXCEPT !.pc = "ValueError",
                                 !.verification_id = verification_id,
                                 !.approved = PyBool(approved),
                                 !.status = 404]]
    /\ IF RunActive
       THEN UNCHANGED <<pc, mode, st, path, result, minted, operator, heard,
                        issued>>
       ELSE \* the caller of the finished run has its answer
            /\ pc' = "idle"
            /\ mode' = "web"
            /\ st' = NoState
            /\ path' = <<>>
            /\ result' = NoResult
            /\ minted' = NoToken
            /\ operator' = NoInput
            /\ heard' = NoInput
            /\ issued' = IF minted = NoToken THEN issued ELSE issued \cup {minted}
    /\ UNCHANGED <<started, pending, clock, faults, traces, decided, probe, twin>>

\* lines 105-107
ResumeRead(c) ==
    /\ call[c].pc = "read"
    /\ call' = [call EXCEPT ![c] =
                  IF call[c].verification_id \in DOMAIN pending
                  THEN [@ EXCEPT !.pc = "stage",
                                 !.frozen = pending[call[c].verification_id],
                                 !.state = Merge(pending[call[c].verification_id],
                                                 [human_approved |-> call[c].approved,
                                                  needs_approval |-> False])]
                  ELSE [@ EXCEPT !.pc = "KeyError", !.status = 500]]
    /\ UNCHANGED <<runvars, pending, clock, faults, resumed, traces, decided, probe, twin>>

\* lines 110-113
ResumeStage(c, ok) ==
    /\ call[c].pc = "stage"
    /\ ok \/ Truthy(call[c].approved)
    /\ call' = [call EXCEPT ![c] =
                  IF Truthy(call[c].approved)
                  THEN [@ EXCEPT !.pc = "delete",
                                 !.state = send_email_alert(call[c].state, ok, clock),
                                 !.ran = "send_email_alert",
                                 !.dispatched = IF ok THEN "ok" ELSE "failed"]
                  ELSE [@ EXCEPT !.pc = "delete",
                                 !.state = handle_no_approval(call[c].state),
                                 !.ran = "handle_no_approval"]]
    /\ faults' = IF ok THEN faults ELSE faults + 1
    /\ decided' = [decided EXCEPT ![call[c].verification_id] = @ + 1]
    /\ UNCHANGED <<runvars, pending, clock, resumed, traces, probe, twin>>

\* lines 116-118
ResumeDelete(c) ==
    /\ call[c].pc = "delete"
    /\ IF call[c].verification_id \in DOMAIN pending
       THEN /\ pending' = Deleted(pending, call[c].verification_id)
            /\ call' = [call EXCEPT ![c].pc = "returned", ![c].status = 200]
       ELSE /\ pending' = pending
            /\ call' = [call EXCEPT ![c].pc = "KeyError", ![c].status = 500]
    /\ UNCHANGED <<runvars, clock, faults, resumed, traces, decided, probe, twin>>

\* The program as main.py and main() run it: one request at a time.
Next ==
    \/ \E m \in Modes, city \in Cities : Quiet /\ StartAnalysis(m, city)
    \/ \E ok \in Outcomes(pc), reply \in Replies(pc),
          typed \in Typed(Asks(mode, pc, st)),
          now \in Times(ReadsClock(mode, pc, st)) : Step(ok, reply, typed, now)
    \/ \E c \in Calls, t \in Tokens, approved \in BOOLEAN :
          Quiet /\ ResumeTest(c, t, approved)
    \/ \E c \in Calls : ResumeRead(c)
    \/ \E c \in Calls, ok \in Outcomes("send_email_alert") : ResumeStage(c, ok)
    \/ \E c \in Calls : ResumeDelete(c)

Spec == Init /\ [][Next]_vars

\* The interpreter keeps executing: a run that has a superstep to take, or
\* an input() to read, takes it, and a continue_with_approval that was
\* entered goes on to its next line.  Requests arrive as the callers please.
RunSteps ==
    \E ok \in Outcomes(pc), reply \in Replies(pc),
       typed \in Typed(Asks(mode, pc, st)),
       now \in Times(ReadsClock(mode, pc, st)) : Step(ok, reply, typed, now)

CallSteps ==
    \/ \E c \in Calls : ResumeRead(c)
    \/ \E c \in Calls, ok \in Outcomes("send_email_alert") : ResumeStage(c, ok)
    \/ \E c \in Calls : ResumeDelete(c)

SpecLive == Init /\ [][Next]_vars /\ WF_vars(RunSteps) /\ WF_vars(CallSteps)

\* continue_with_approval called from several threads: the invocations
\* interleave line by line.
NextRace ==
    \/ \E m \in Modes, city \in Cities : Quiet /\ StartAnalysis(m, city)
    \/ \E ok \in Outcomes(pc), reply \in Replies(pc),
          typed \in Typed(Asks(mode, pc, st)),
          now \in Times(ReadsClock(mode, pc, st)) : Step(ok, reply, typed, now)
    \/ \E c \in Calls, t \in Tokens, approved \in BOOLEAN :
          ~RunActive /\ ResumeTest(c, t, approved)
    \/ \E c \in Calls : ResumeRead(c)
    \/ \E c \in Calls, ok \in Outcomes("send_email_alert") : ResumeStage(c, ok)
    \/ \E c \in Calls : ResumeDelete(c)

SpecRace == Init /\ [][NextRace]_vars


\* ------------------------------------------------------- the routers alone
\* route_response is checked on inputs built from a lower-case text and a
\* way of writing it; each text carries what the specification expects of it.
UpperChar(c) ==
    IF \E i \in 1..Len(LowerChars) : LowerChars[i] = c
    THEN UpperChars[CHOOSE i \in 1..Len(LowerChars) : LowerChars[i] = c]
    ELSE c

Forms == {"lower", "capital", "upper", "padded"}

Render(text, form) ==
    CASE form = "lower" -> text
      [] form = "capital" ->
            IF text = <<>> THEN text ELSE <<UpperChar(text[1])>> \o Tail(text)
      [] form = "upper" -> [i \in 1..Len(text) |-> UpperChar(text[i])]
      [] form = "padded" ->
            <<" ", "\t">> \o [i \in 1..Len(text) |-> UpperChar(text[i])] \o <<"\n">>

SeverityTexts ==
    {[text |-> kwCritical, severe |-> TRUE],
     [text |-> kwHigh, severe |-> TRUE],
     [text |-> kwMedium, severe |-> FALSE],
     [text |-> kwLow, severe |-> FALSE],
     [text |-> <<>>, severe |-> FALSE],
     [text |-> <<"a","s","s","e","s","s","m","e","n","t"," ","f","a","i","l","e","d">>, severe |-> FALSE],
     [text |-> <<"v","e","r","y"," ","h","i","g","h">>, severe |-> FALSE],
     [text |-> <<"h","i","g","h",".">>, severe |-> FALSE]}

DisasterTexts ==
    {[text |-> kwFlood, signature |-> TRUE],
     [text |-> <<"f","l","a","s","h"," ","f","l","o","o","d","s">>, signature |-> TRUE],
     [text |-> <<"s","e","v","e","r","e"," ","s","t","o","r","m">>, signature |-> TRUE],
     [text |-> <<"t","h","u","n","d","e","r","s","t","o","r","m","s">>, signature |-> TRUE],
     [text |-> <<"h","u","r","r","i","c","a","n","e">>, signature |-> FALSE],
     [text |-> <<"h","e","a","t","w","a","v","e">>, signature |-> FALSE],
     [text |-> <<"n","o"," ","i","m","m","e","d","i","a","t","e"," ","t","h","r","e","a","t">>, signature |-> FALSE],
     [text |-> <<"a","n","a","l","y","s","i","s"," ","f","a","i","l","e","d">>, signature |-> FALSE],
     [text |-> <<"s","t"," ","o","r","m"," ","f","l","o"," ","o","d">>, signature |-> FALSE],
     [text |-> <<>>, signature |-> FALSE]}

InitRouter ==
    /\ probe \in [severity : SeverityTexts, sform : Forms,
                  disaster : DisasterTexts, dform : Forms]
    /\ pc = "route_response"
    /\ mode = "web"
    /\ st = Merge(ChannelWrite(initial_state("web", "London")),
                  [severity |-> Render(probe.severity.text, probe.sform),
                   disaster_type |-> Render(probe.disaster.text, probe.dform)])
    /\ path = <<>>
    /\ result = NoResult
    /\ minted = NoToken
    /\ operator = NoInput
    /\ heard = NoInput
    /\ started = 0
    /\ issued = {}
    /\ pending = NoData
    /\ clock = 0
    /\ faults = 0
    /\ resumed = 0
    /\ call = [c \in Calls |-> IdleCall]
    /\ traces = NoData
    /\ decided = NoData
    /\ twin = NoData

\* The conditional edge out of data_logging
Route ==
    /\ pc = "route_response"
    /\ pc' = route_response(st)
    /\ UNCHANGED <<mode, st, path, result, minted, operator, heard, started,
                   issued,
                   pending, clock, faults, resumed, call, traces, decided, probe, twin>>

NextRouter == Route

SpecRouter == InitRouter /\ [][NextRouter]_vars

\* ------------------------------------------------------- the graphs alone
\* The two graphs are walked as graphs: from the entry point, along every
\* edge, a conditional edge being taken on whatever its router returns for
\* some state.  The state is drawn afresh at each node.
NodesOf(m) == IF m = "web" THEN WebNodes ELSE Nodes

\* workflow.set_entry_point("get_weather")
EntryPoints == {"get_weather"}

\* The states the routers are tried on.  needs_approval is "absent" when the
\* state has no such key.
RouterProbes ==
    [severity : {sCritical, sLowPadded},
     disaster_type : {sFlood, sHeatwave},
     human_approved : {True, False, None},
     needs_approval : {True, False, "absent"}]

RouterState(m, p) ==
    LET base == Merge(ChannelWrite(initial_state(m, "London")),
                      [severity |-> p.severity,
                       disaster_type |-> p.disaster_type,
                       human_approved |-> p.human_approved])
    IN  IF p.needs_approval = "absent" \/ m # "web"
        THEN base
        ELSE Merge(base, [needs_approval |-> p.needs_approval])

EdgeTargets(m, node) ==
    {NextNode(m, node, RouterState(m, p)) : p \in RouterProbes}

RECURSIVE Closure(_, _)
Closure(m, S) ==
    LET T == S \cup UNION {EdgeTargets(m, n) : n \in S \ {END}}
    IN  IF T = S THEN S ELSE Closure(m, T)

Reachable(m) == Closure(m, EntryPoints)

InitGraph ==
    /\ mode \in Modes
    /\ pc \in EntryPoints
    /\ probe \in RouterProbes
    /\ st = RouterState(mode, probe)
    /\ path = <<>>
    /\ result = NoResult
    /\ minted = NoToken
    /\ operator = NoInput
    /\ heard = NoInput
    /\ started = 0
    /\ issued = {}
    /\ pending = NoData
    /\ clock = 0
    /\ faults = 0
    /\ resumed = 0
    /\ call = [c \in Calls |-> IdleCall]
    /\ traces = NoData
    /\ decided = NoData
    /\ twin = NoData

\* The edge out of pc is followed on st; the next node gets a state p.
Walk(p) ==
    /\ pc \in WebNodes
    /\ pc' = NextNode(mode, pc, st)
    /\ path' = Append(path, pc)
    /\ probe' = p
    /\ st' = RouterState(mode, p)
    /\ UNCHANGED <<mode, result, minted, operator, heard, started, issued,
                   pending, clock, faults, resumed, call, traces, decided, twin>>

NextGraph == \E p \in RouterProbes : Walk(p)

SpecGraph == InitGraph /\ [][NextGraph]_vars

\* ------------------------------------------------- resumes of two entries
\* Two web runs for one city have stored their states, a millisecond apart,
\* and returned; from then on only continue_with_approval is called, from
\* several threads, on their ids and on an unknown one.
\* The state get_human_verification_web is given in a run without failures
StateAtVerification(city, disaster, severity) ==
    LET s0 == ChannelWrite(initial_state("web", city))
        s1 == ChannelWrite(get_weather_data(s0, TRUE))
        s2 == ChannelWrite(analyze_disaster_type(s1, TRUE, disaster))
        s3 == ChannelWrite(assess_severity(s2, TRUE, severity))
        s4 == ChannelWrite(data_logging(s3, TRUE))
    IN  ChannelWrite(RunNode("web", route_response(s4), s4, TRUE, sEmpty,
                             yes, 0))

InitPair ==
    /\ \E city \in Cities, d1 \in DisasterReplies, d2 \in DisasterReplies :
          /\ pending =
                Stored(Stored(NoData,
                              StateAtVerification(city, d1, sMedium), 0),
                       StateAtVerification(city, d2, sLowPadded), 1)
          /\ issued = {Token(city, 0), Token(city, 1)}
          /\ decided = [t \in {Token(city, 0), Token(city, 1)} |-> 0]
    /\ pc = "idle"
    /\ mode = "web"
    /\ st = NoState
    /\ path = <<>>
    /\ result = NoResult
    /\ minted = NoToken
    /\ operator = NoInput
    /\ heard = NoInput
    /\ started = MaxRuns
    /\ clock = 1
    /\ faults = 0
    /\ resumed = 0
    /\ call = [c \in Calls |-> IdleCall]
    /\ traces = NoData
    /\ probe = NoData
    /\ twin = NoData

NextPair ==
    \/ \E c \in Calls, t \in Tokens, approved \in BOOLEAN :
          ResumeTest(c, t, approved)
    \/ \E c \in Calls : ResumeRead(c)
    \/ \E c \in Calls, ok \in Outcomes("send_email_alert") : ResumeStage(c, ok)
    \/ \E c \in Calls : ResumeDelete(c)

SpecPair == InitPair /\ [][NextPair]_vars

\* ------------------------------------------- the routers on unset input
\* Each router is applied to states whose severity and disaster_type are
\* unset, a failure sentinel, blank or an unlisted word, as well as listed
\* ones, and whose human_approved and needs_approval take every value.
Routers == {"route_response", "verify_approval_router",
            "verify_approval_router_web"}

sBlank == <<" ", "\t">>
sModerate == <<"M","o","d","e","r","a","t","e">>

UnsetProbes ==
    [router : Routers,
     severity : {sEmpty, sBlank, sAssessmentFailed, sModerate, sCritical,
                 sLowPadded},
     disaster_type : {sEmpty, sBlank, sAnalysisFailed, sFlood},
     human_approved : {True, False, None},
     needs_approval : {True, False, "absent"}]

InitUnset ==
    /\ probe \in UnsetProbes
    /\ pc = "router"
    /\ mode = "web"
    /\ st = RouterState("web", probe)
    /\ path = <<>>
    /\ result = NoResult
    /\ minted = NoToken
    /\ operator = NoInput
    /\ heard = NoInput
    /\ started = 0
    /\ issued = {}
    /\ pending = NoData
    /\ clock = 0
    /\ faults = 0
    /\ resumed = 0
    /\ call = [c \in Calls |-> IdleCall]
    /\ traces = NoData
    /\ decided = NoData
    /\ twin = NoData

\* The router under test is called on the state.
Consult ==
    /\ pc = "router"
    /\ pc' = CASE probe.router = "route_response" -> route_response(st)
               [] probe.router = "verify_approval_router" ->
                     verify_approval_router(st)
               [] probe.router = "verify_approval_router_web" ->
                     verify_approval_router_web(st)
    /\ UNCHANGED <<mode, st, path, result, minted, operator, heard, started,
                   issued, pending, clock, faults, resumed, call, traces,
                   decided, probe, twin>>

NextUnset == Consult

SpecUnset == InitUnset /\ [][NextUnset]_vars

\* ------------------------------------------------------ two runs compared
\* run_agent_web is run twice for one city, the second run after the first.
\* A run reads nothing the other wrote, so the two are stepped node by node
\* side by side: the provider, the model, the log file and the mail
\* transport answer the second run as they answered the first, and each run
\* reads the clock for itself, the second at the same instant or later.
TwinIdle == [pc |-> "idle", st |-> NoState, result |-> NoResult]

InitTwin ==
    /\ pc = "idle"
    /\ mode = "web"
    /\ st = NoState
    /\ path = <<>>
    /\ result = NoResult
    /\ minted = NoToken
    /\ operator = NoInput
    /\ heard = NoInput
    /\ started = 0
    /\ issued = {}
    /\ pending = NoData
    /\ clock = 0
    /\ faults = 0
    /\ resumed = 0
    /\ call = [c \in Calls |-> IdleCall]
    /\ traces = NoData
    /\ decided = NoData
    /\ probe = NoData
    /\ twin = TwinIdle

\* int(time.time() * 1000) at agent_web.py line 66 and datetime.now() in
\* send_email_alert
ReadsWallClock(node, state) ==
    ReadsClock("web", node, state) \/ node = "send_email_alert"

Later(reads, now) == IF reads THEN {now, now + 1} ELSE {now}

\* Both callers invoke run_agent_web(city).
TwinStart(city) ==
    /\ pc \in {"idle", END}
    /\ twin.pc \in {"idle", END}
    /\ started < MaxRuns
    /\ started' = started + 1
    /\ pc' = "get_weather"
    /\ st' = ChannelWrite(initial_state("web", city))
    /\ path' = <<>>
    /\ result' = NoResult
    /\ minted' = NoToken
    /\ twin' = [pc |-> "get_weather",
                st |-> ChannelWrite(initial_state("web", city)),
                result |-> NoResult]
    /\ UNCHANGED <<mode, operator, heard, issued, pending, clock, faults,
                   resumed, call, traces, decided, probe>>

\* One superstep of each run, on the same outcome of the node's external call
TwinStep(ok, reply, now, later) ==
    /\ pc \in WebNodes
    /\ twin.pc = pc
    /\ \E out \in {ChannelWrite(RunNode("web", pc, st, ok, reply, yes, now))} :
       \E nxt \in {NextNode("web", pc, out)} :
       \E out2 \in {ChannelWrite(RunNode("web", twin.pc, twin.st, ok, reply,
                                         yes, later))} :
       \E nxt2 \in {NextNode("web", twin.pc, out2)} :
       LET stores == pc = "get_human_verification"
       IN  /\ st' = out
           /\ pc' = nxt
           /\ path' = Append(path, pc)
           /\ result' = IF nxt = END THEN web_result(out.city, out) ELSE result
           /\ minted' = IF stores /\ NeedsHuman(st)
                        THEN Token(st.city, now) ELSE minted
           /\ twin' = [pc |-> nxt2,
                       st |-> out2,
                       result |-> IF nxt2 = END THEN web_result(out2.city, out2)
                                                ELSE twin.result]
           /\ pending' = IF stores
                         THEN Stored(Stored(pending, st, now), twin.st, later)
                         ELSE pending
           /\ clock' = later
           /\ faults' = IF ok THEN faults ELSE faults + 1
           /\ UNCHANGED <<mode, operator, heard, started, issued, resumed,
                          call, traces, decided, probe>>

NextTwin ==
    \/ \E city \in Cities : TwinStart(city)
    \/ \E ok \in Outcomes(pc), reply \in Replies(pc),
          now \in Later(ReadsWallClock(pc, st), clock) :
          \E later \in Later(ReadsWallClock(pc, st), now) :
              TwinStep(ok, reply, now, later)

SpecTwin == InitTwin /\ [][NextTwin]_vars

\* ------------------------------------------------------------------ claims
Severe(state) == Lower(Strip(state.severity)) \in {kwCritical, kwHigh}
Notified(p) == "send_email_alert" \in Range(p)
Parked(p) == "wait_for_approval" \in Range(p)

\* C1, as claimed: a web run whose severity normalizes to low or medium ends
\* suspended; its result has needs_approval true and a verification_id, and
\* _pending_verifications has an entry under that id.
C1_LowMediumSuspends ==
    (pc = END /\ mode = "web" /\ NeedsHuman(st)) =>
        /\ result.needs_approval = True
        /\ result.verification_id # NoToken
        /\ result.verification_id \in DOMAIN pending

\* C2, as claimed: an approved resume that returns has recorded a
\* notification (alerts is one entry longer than in the frozen state) and its
\* id is no longer in the store.
C2_ApprovedResumeRecords ==
    \A c \in Calls :
        (call[c].pc = "returned" /\ Truthy(call[c].approved)) =>
            /\ Len(call[c].state.alerts) = Len(call[c].frozen.alerts) + 1
            /\ call[c].verification_id \notin DOMAIN pending

\* C2, amended: an approved resume that returns has run the notify stage on
\* the frozen state; alerts is one entry longer than in the frozen state if
\* the dispatch succeeded and equal to it if the dispatch failed; in both
\* cases its id is no longer in the store.
C2_ApprovedResumeOutcome ==
    \A c \in Calls :
        (call[c].pc = "returned" /\ Truthy(call[c].approved)) =>
            /\ call[c].ran = "send_email_alert"
            /\ call[c].dispatched \in {"ok", "failed"}
            /\ call[c].dispatched = "ok" =>
                  /\ Len(call[c].state.alerts) = Len(call[c].frozen.alerts) + 1
                  /\ IsPrefix(call[c].frozen.alerts, call[c].state.alerts)
            /\ call[c].dispatched = "failed" =>
                  call[c].state.alerts = call[c].frozen.alerts
            /\ call[c].verification_id \notin DOMAIN pending

C2_Witness ==
    \E c \in Calls :
        /\ call[c].pc = "returned" /\ Truthy(call[c].approved)
        /\ NeedsHuman(call[c].frozen)
        /\ call[c].dispatched = "ok"
        /\ Len(call[c].state.alerts) = Len(call[c].frozen.alerts) + 1

\* C3: a rejected resume that returns has run handle_no_approval and not the
\* notify stage, its alerts are those of the frozen state, and its id is no
\* longer in the store.
C3_RejectedResume ==
    \A c \in Calls :
        (call[c].pc = "returned" /\ ~Truthy(call[c].approved)) =>
            /\ call[c].ran = "handle_no_approval"
            /\ call[c].dispatched = "none"
            /\ call[c].state.alerts = call[c].frozen.alerts
            /\ Len(call[c].state.messages) = Len(call[c].frozen.messages) + 1
            /\ call[c].verification_id \notin DOMAIN pending

C3_Witness ==
    \E c \in Calls :
        /\ call[c].pc = "returned" /\ ~Truthy(call[c].approved)
        /\ NeedsHuman(call[c].frozen)

\* The slot the next invocation of continue_with_approval takes.
NewSlot ==
    CHOOSE c \in Calls :
        /\ Deliver(call)[c].pc = "idle"
        /\ \A d \in Calls : d < c => Deliver(call)[d].pc # "idle"

\* C4: a resume whose id is not a key of the store (never issued, or consumed
\* by an earlier resume) ends with the not-found error, status 404, having
\* run no stage and leaving the store as it was; and a resume that returns
\* has removed its id, so a later resume of that id is such a call.
C4_UnknownIdNotFound ==
    [][ /\ (resumed' = resumed + 1
            /\ call'[NewSlot].verification_id \notin DOMAIN pending) =>
               /\ call'[NewSlot].pc = "ValueError"
               /\ call'[NewSlot].status = 404
               /\ call'[NewSlot].ran = "none"
               /\ call'[NewSlot].state = NoState
               /\ pending' = pending
        /\ \A c \in Calls :
             (call[c].pc = "delete" /\ call'[c].pc = "returned") =>
                 call[c].verification_id \notin DOMAIN pending'
      ]_vars

\* A resume of an id that a run stored and an earlier resume consumed
C4_Witness ==
    \E c \in Calls :
        /\ call[c].pc = "ValueError"
        /\ call[c].verification_id \in DOMAIN traces
        /\ resumed = 2

\* C5, as claimed: of two interleaved resumes of the same id, one of which
\* found the id, exactly one returns a final state and the other ends with
\* the not-found error.
C5_ExactlyOneResumeSucceeds ==
    \A c, d \in Calls :
        ( /\ c # d
          /\ call[c].verification_id = call[d].verification_id
          /\ call[c].pc \in Finished /\ call[d].pc \in Finished
          /\ call[c].pc # "ValueError" ) =>
            /\ call[c].pc = "returned"
            /\ call[d].pc = "ValueError"

\* C6, as claimed: a run whose severity is critical or high ends with
\* human_approved true, having run the notify stage and never the park node.
C6_SevereAutoApproved ==
    (pc = END /\ Severe(st)) =>
        /\ st.human_approved = True
        /\ Notified(path)
        /\ ~Parked(path)

\* C7, as claimed: the notify stage runs only for a critical or high
\* severity or after a human decision of approved.
C7_NotifyOnlyWhenApproved ==
    /\ Notified(path) => (Severe(st) \/ operator = yes)
    /\ \A c \in Calls :
           call[c].ran = "send_email_alert" => Truthy(call[c].approved)

\* C8: route_response returns emergency_response iff the severity, trimmed
\* and case-folded, is critical or high; otherwise public_works_response iff
\* the disaster type contains flood or storm; otherwise
\* civil_defense_response; and nothing else.
C8_DepartmentRouter ==
    pc # "route_response" =>
        pc = IF probe.severity.severe THEN "emergency_response"
             ELSE IF probe.disaster.signature THEN "public_works_response"
             ELSE "civil_defense_response"

C8_Witness ==
    /\ pc = "public_works_response"
    /\ probe.severity.text = kwLow /\ probe.sform = "padded"
    /\ probe.disaster.text # kwFlood /\ probe.dform = "upper"

\* C9, as claimed: the id a run stores its state under was not stored under
\* by any earlier run.
C9_FreshToken == minted = NoToken \/ minted \notin issued

\* C10, as claimed: every step of a run extends its trace, and the trace a
\* resume returns extends the trace the run of that id returned.
C10_TraceGrows ==
    [][ /\ (RunActive /\ started' = started) =>
               IsPrefix(st.messages, st'.messages)
        /\ \A c \in Calls :
             (call[c].pc = "delete" /\ call'[c].pc = "returned"
              /\ call[c].verification_id \in DOMAIN traces) =>
                 IsPrefix(traces[call[c].verification_id],
                          call'[c].state.messages)
      ]_vars

\* state.get("verification_id") is not None / state.get("needs_approval")
HasToken(state) == Get(state, "verification_id", NoToken) # NoToken
Suspended(state) == Truthy(Get(state, "needs_approval", False))

\* C11: in the web graph a state carries a verification_id iff its
\* needs_approval is true.  The input of a run, the channels' values, the
\* result run_agent_web returns and the state of a resume carry neither; the
\* dict get_human_verification_web returns carries both for a low or medium
\* severity and neither otherwise.
C11_TokenIffSuspended ==
    /\ LET init == initial_state("web", "London")
       IN  ~HasToken(init) /\ ~Suspended(init)
    /\ (mode = "web" /\ RunActive) => (HasToken(st) <=> Suspended(st))
    /\ (mode = "web" /\ pc = "get_human_verification") =>
          LET out == get_human_verification_web(st, clock)
          IN  /\ HasToken(out) <=> Suspended(out)
              /\ NeedsHuman(st) => (HasToken(out) /\ Suspended(out))
              /\ ~NeedsHuman(st) => (~HasToken(out) /\ ~Suspended(out))
    /\ (mode = "web" /\ pc = END) =>
          /\ HasToken(result) <=> Suspended(result)
          /\ HasToken(st) <=> Suspended(st)
    /\ \A c \in Calls :
          call[c].pc \in {"stage", "delete", "returned"} =>
              (~HasToken(call[c].state) /\ ~Suspended(call[c].state))

C11_Witness ==
    \E c \in Calls :
        /\ call[c].pc = "returned"
        /\ NeedsHuman(call[c].frozen)
        /\ ~HasToken(call[c].state) /\ ~Suspended(call[c].state)

Consuming(t) ==
    \E c \in Calls : call[c].pc = "delete" /\ call[c].verification_id = t

\* C13, as claimed: an id is a key of the store iff a run was suspended under
\* it and no resume of it has completed.  Every key was written by a run's
\* verification stage; the run that wrote it ends suspended (parked, with
\* needs_approval true in its result); and the entry is there until the
\* resume that consumes it deletes it, whether its stage succeeded or failed.
C13_StoreLifecycle ==
    /\ \A t \in DOMAIN pending : t \in DOMAIN decided
    /\ (mode = "web" /\ pc = END /\ minted # NoToken) =>
           (Parked(path) /\ Suspended(result))
    /\ \A t \in DOMAIN decided :
           t \in DOMAIN pending <=> (decided[t] = 0 \/ Consuming(t))

\* C14, as claimed: every run that was started ends, and every resume that
\* found its id returns, whatever fails on the way (the weather provider, the
\* model, the mail transport, the log file, the operator's input).
C14_EveryRunEnds ==
    /\ RunActive ~> (pc = END)
    /\ \A c \in Calls : (call[c].pc = "read") ~> (call[c].pc = "returned")

\* The nodes with an edge to END
Terminals == {"send_email_alert", "handle_no_approval", "wait_for_approval"}

\* st and st2 agree on every key but those in keys.
SameBut(st1, st2, keys) ==
    /\ DOMAIN st1 = DOMAIN st2
    /\ \A k \in DOMAIN st1 \ keys : st1[k] = st2[k]

\* C15: when the weather provider fails, get_weather_data writes 'N/A' to
\* each of the seven fields of the reading and appends one failure entry to
\* the trace, touching nothing else; the run goes on to analyze_disaster, and
\* a run that ends with such a reading has executed analyze_disaster,
\* assess_severity and data_logging after the fetch and ended at a terminal
\* node.
C15_WeatherFailure ==
    [][ /\ (pc = "get_weather" /\ faults' = faults + 1) =>
              /\ DOMAIN st'.weather_data =
                    {"weather", "wind_speed", "cloud_cover", "sea_level",
                     "temperature", "humidity", "pressure"}
              /\ \A k \in DOMAIN st'.weather_data : st'.weather_data[k] = "N/A"
              /\ Len(st'.messages) = Len(st.messages) + 1
              /\ IsPrefix(st.messages, st'.messages)
              /\ SameBut(st, st', {"weather_data", "messages"})
              /\ pc' = "analyze_disaster"
        /\ (pc # END /\ pc' = END /\ st'.messages[1] # 
               "Weather data fetched successfully for " \o st'.city) =>
              /\ st'.weather_data = error_data
              /\ Len(path') >= 5
              /\ [i \in 1..4 |-> path'[i]] =
                    <<"get_weather", "analyze_disaster", "assess_severity",
                      "data_logging">>
              /\ path'[Len(path')] \in Terminals
      ]_vars

C15_Witness ==
    /\ pc = END
    /\ st.weather_data = error_data
    /\ st.weather_data # Reading
    /\ path[Len(path)] \in Terminals

\* The field a stage writes besides the trace, and what it writes there
\* when its external call fails.
OwnField(node) ==
    CASE node = "analyze_disaster" -> {"disaster_type"}
      [] node = "assess_severity" -> {"severity"}
      [] node \in {"emergency_response", "civil_defense_response",
                   "public_works_response"} -> {"response"}
      [] OTHER -> {}

FailureValue(node) ==
    CASE node = "analyze_disaster" ->
            <<"A","n","a","l","y","s","i","s"," ","F","a","i","l","e","d">>
      [] node = "assess_severity" ->
            <<"A","s","s","e","s","s","m","e","n","t"," ",
              "F","a","i","l","e","d">>
      [] OTHER -> "Failed to generate response plan"

\* before -> after is the effect of a stage whose external call failed.
FailureFrame(node, before, after) ==
    /\ SameBut(before, after, OwnField(node) \cup {"messages"})
    /\ \A k \in OwnField(node) : after[k] = FailureValue(node)
    /\ Len(after.messages) = Len(before.messages) + 1
    /\ IsPrefix(before.messages, after.messages)

\* C16: when the external call of analyze_disaster_type, assess_severity, a
\* response generator, data_logging or send_email_alert fails, the state the
\* stage returns is its input with the stage's own field set to its sentinel
\* (none for data_logging and send_email_alert) and one entry appended to
\* the trace; the failure does not leave the stage: the run follows the
\* node's edge and the resume goes on to its clean-up.
C16_FailureFrame ==
    [][ /\ (RunActive /\ pc # "get_weather" /\ faults' = faults + 1) =>
              /\ FailureFrame(pc, st, st')
              /\ pc' = NextNode(mode, pc, st')
        /\ \A c \in Calls :
              (call[c].pc = "stage" /\ faults' = faults + 1) =>
                  /\ FailureFrame("send_email_alert", call[c].state,
                                  call'[c].state)
                  /\ call'[c].pc = "delete"
      ]_vars

C16_Witness ==
    /\ pc = "data_logging"
    /\ faults = 1
    /\ st.severity = sAssessmentFailed
    /\ st.disaster_type \in DisasterReplies

\* before -> after is the effect of the notify stage; sent tells whether the
\* dispatch succeeded.
NotifyEffect(before, after, sent) ==
    /\ SameBut(before, after, {"alerts", "messages"})
    /\ Len(after.messages) = Len(before.messages) + 1
    /\ IsPrefix(before.messages, after.messages)
    /\ IF sent
       THEN /\ Len(after.alerts) = Len(before.alerts) + 1
            /\ IsPrefix(before.alerts, after.alerts)
            /\ after.messages[Len(after.messages)] =
                  "Successfully sent weather alert email for " \o before.city
       ELSE /\ after.alerts = before.alerts
            /\ after.messages[Len(after.messages)] =
                  "Failed to send email alert: {e}"

\* C17: send_email_alert appends one record to alerts and one success entry
\* to the trace when the dispatch succeeds, and only a failure entry to the
\* trace when it fails.  Either way the run ends and hands its result to the
\* caller, and the resume goes on to return its state with status 200.
C17_NotifyOutcome ==
    [][ /\ (RunActive /\ pc = "send_email_alert") =>
              /\ NotifyEffect(st, st', faults' = faults)
              /\ pc' = END
              /\ result' # NoResult
              /\ result'.alerts = st'.alerts
        /\ \A c \in Calls :
              /\ (call[c].pc = "stage" /\ Truthy(call[c].approved)) =>
                    /\ NotifyEffect(call[c].state, call'[c].state,
                                    faults' = faults)
                    /\ call'[c].pc = "delete"
              /\ (call[c].pc = "delete" /\ call[c].ran = "send_email_alert"
                  /\ call'[c].pc # "delete") =>
                    /\ call'[c].pc = "returned"
                    /\ call'[c].status = 200
                    /\ call'[c].state = call[c].state
      ]_vars

\* A run that ended after a failed dispatch
C17_Witness ==
    /\ pc = END
    /\ Notified(path)
    /\ st.alerts = <<>>
    /\ st.messages[Len(st.messages)] = "Failed to send email alert: {e}"
    /\ result # NoResult

\* C18: each graph has the one entry node get_weather; every node of the
\* graph can be reached from it; whatever a router returns names a node of
\* the graph it is wired into; and every path from the entry is finite and
\* ends, through send_email_alert, handle_no_approval or (web graph)
\* wait_for_approval, at END.
C18_GraphValid ==
    /\ EntryPoints = {"get_weather"}
    /\ \A m \in Modes : Reachable(m) = NodesOf(m) \cup {END}
    /\ pc \in NodesOf(mode) \cup {END}
    /\ pc # END => EdgeTargets(mode, pc) \subseteq NodesOf(mode) \cup {END}
    /\ Len(path) <= 7
    /\ path # <<>> => path[1] = "get_weather"
    /\ pc = END =>
          /\ path # <<>>
          /\ path[Len(path)] \in Terminals \cap NodesOf(mode)

C18_Witness ==
    /\ pc = END
    /\ mode = "web"
    /\ path[Len(path)] = "wait_for_approval"
    /\ "public_works_response" \in Range(path)

\* C19: verify_approval_router_web returns wait_for_approval iff
\* needs_approval is true and human_approved is None; otherwise
\* send_email_alert iff human_approved is true; otherwise
\* handle_no_approval.  A state without the key needs_approval is one whose
\* needs_approval is not true.
C19_ApprovalRouterWeb ==
    [][ (mode = "web" /\ pc = "get_human_verification") =>
            pc' = IF probe.needs_approval = True /\ probe.human_approved = None
                  THEN "wait_for_approval"
                  ELSE IF probe.human_approved = True
                       THEN "send_email_alert"
                       ELSE "handle_no_approval"
      ]_vars

C19_Witness ==
    /\ mode = "web"
    /\ pc = "wait_for_approval"
    /\ path[Len(path)] = "get_human_verification"

\* C20: the blocking graph never enters wait_for_approval and its result is
\* never a suspended one.  For a low or medium severity
\* get_human_verification stays where it is, its state untouched, until the
\* line read is 'y' or 'n' (in any case, with any padding); it then sets
\* human_approved to true for 'y' and false for 'n', and the router sends
\* the run to send_email_alert iff it is true, else to handle_no_approval.
C20_BlockingVerification ==
    [][ mode' = "blocking" =>
          /\ pc' # "wait_for_approval" /\ ~Parked(path')
          /\ (pc' = END) => ~Suspended(result') /\ ~HasToken(result')
          /\ (mode = "blocking" /\ pc = "get_human_verification"
              /\ NeedsHuman(st)) =>
                LET line == Strip(Lower(heard'))
                IN  IF line \in {<<"y">>, <<"n">>}
                    THEN /\ st'.human_approved =
                               (IF line = <<"y">> THEN True ELSE False)
                         /\ SameBut(st, st', {"human_approved", "messages"})
                         /\ pc' = IF line = <<"y">> THEN "send_email_alert"
                                                    ELSE "handle_no_approval"
                    ELSE pc' = pc /\ st' = st /\ path' = path
      ]_vars

C20_Witness ==
    /\ mode = "blocking"
    /\ pc = END
    /\ heard = <<"N", " ">>
    /\ st.human_approved = False
    /\ path[Len(path)] = "handle_no_approval"

\* C21, as claimed: the state held in _pending_verifications under id t
\* carries verification_id t, needs_approval true and human_approved None,
\* as the dict get_human_verification_web returned for it does.
C21_FrozenCarriesToken ==
    \A t \in DOMAIN pending :
        /\ Get(pending[t], "verification_id", NoToken) = t
        /\ Suspended(pending[t])
        /\ pending[t].human_approved = None

\* The graph state of the run right after get_human_verification_web stored
\* `frozen` under verification_id: the dict the node returned, written to the
\* channels.
SuspensionState(frozen, verification_id) ==
    ChannelWrite(get_human_verification_web(frozen, verification_id[2]))

\* The decision written into a state, as continue_with_approval writes it
Decide(state, approved) ==
    Merge(state, [human_approved |-> approved, needs_approval |-> False])

\* The graph taken up again after get_human_verification on a decided state:
\* the conditional edge, then the routed node.
ContinueFrom(state, ok) ==
    RunNode("web", verify_approval_router_web(state), state, ok, sEmpty, yes, 0)

\* C22, as claimed: the state a resume returns is the state of the run at
\* its suspension point with the decision written into it, taken through
\* verify_approval_router_web and the node it names; that node is not
\* wait_for_approval and is the one stage the resume runs.
C22_ResumeContinues ==
    \A c \in Calls :
        call[c].pc = "returned" =>
            LET s == Decide(SuspensionState(call[c].frozen,
                                            call[c].verification_id),
                            call[c].approved)
            IN  /\ verify_approval_router_web(s) # "wait_for_approval"
                /\ call[c].ran = verify_approval_router_web(s)
                /\ call[c].state =
                       ContinueFrom(s, call[c].dispatched # "failed")

SameAlertsButTime(r1, r2) ==
    /\ Len(r1.alerts) = Len(r2.alerts)
    /\ \A i \in 1..Len(r1.alerts) : r1.alerts[i][1] = r2.alerts[i][1]

C24_RoutersTotal ==
    pc # "router" =>
        CASE probe.router = "route_response" ->
                pc \in {"emergency_response", "civil_defense_response",
                        "public_works_response"}
          [] probe.router = "verify_approval_router" ->
                pc \in {"send_email_alert", "handle_no_approval"}
          [] probe.router = "verify_approval_router_web" ->
                pc \in {"send_email_alert", "handle_no_approval",
                        "wait_for_approval"}

\* The department router has answered for an unset severity and a failed
\* analysis.
C24_Witness ==
    /\ probe.router = "route_response"
    /\ st.severity = <<>>
    /\ st.disaster_type =
          <<"A","n","a","l","y","s","i","s"," ","F","a","i","l","e","d">>
    /\ pc = "civil_defense_response"

\* The step is the del of a resume of id t.
DeletesOwn(t) ==
    \E c \in Calls :
        /\ call[c].pc = "delete"
        /\ call[c].verification_id = t
        /\ call'[c].pc = "returned"

\* The step is a run's verification stage storing its state under id t.
StoresUnder(t) ==
    /\ pc = "get_human_verification"
    /\ path' = Append(path, pc)
    /\ minted' = t

\* C25: with resumes interleaved line by line, an entry of the store is
\* removed only by the del of a resume of its own id and is never changed by
\* a resume at all: every line of a resume of another id, whether that
\* resume returns or fails, leaves the entry and its frozen state as they
\* were.  A resume reads the state stored under its own id, and the state it
\* produces is its stage applied to that state with its own decision, so it
\* is what it would be had no other resume run.
C25_ResumeFrame ==
    [][ /\ \A t \in DOMAIN pending :
              \/ t \in DOMAIN pending' /\ pending'[t] = pending[t]
              \/ DeletesOwn(t)
              \/ StoresUnder(t)
        /\ \A c \in Calls :
              /\ (call[c].pc = "read" /\ call'[c].pc = "stage") =>
                    call'[c].frozen = pending[call[c].verification_id]
              /\ (call[c].pc = "stage" /\ call'[c].pc = "delete") =>
                    LET s == Decide(call[c].frozen, call[c].approved)
                    IN  call'[c].state =
                          IF Truthy(call[c].approved)
                          THEN send_email_alert(s, faults' = faults, clock)
                          ELSE handle_no_approval(s)
              /\ (call[c].pc = "delete" /\ call'[c].pc = "returned") =>
                    call'[c].state = call[c].state
      ]_vars

\* Two resumes of different ids, both past their stage and before their del
C25_Witness ==
    \E c, d \in Calls :
        /\ call[c].pc = "delete"
        /\ call[d].pc = "delete"
        /\ call[c].verification_id # call[d].verification_id
        /\ call[c].verification_id \in DOMAIN pending
        /\ call[d].verification_id \in DOMAIN pending

\* C26: in the web graph a run that stored its state for approval has not
\* executed send_email_alert and has no alert, neither in its graph state
\* nor in the result it returns; the state held in the store has no alert
\* and no trace of a dispatch; and as long as no decision has been given on
\* an entry, no resume has run a stage on it.  A resume dispatches only
\* after it was handed an approval.
C26_NoAlertWhilePending ==
    /\ (mode = "web" /\ minted # NoToken /\ (RunActive \/ pc = END)) =>
          /\ ~Notified(path)
          /\ st.alerts = <<>>
          /\ pc = END => result.alerts = <<>>
    /\ \A t \in DOMAIN pending :
          /\ pending[t].alerts = <<>>
          /\ \A i \in 1..Len(pending[t].messages) :
                pending[t].messages[i] #
                    "Successfully sent weather alert email for "
                        \o pending[t].city
          /\ (t \in DOMAIN decided /\ decided[t] = 0) =>
                \A c \in Calls :
                    call[c].verification_id = t =>
                        (call[c].ran = "none" /\ call[c].dispatched = "none")
    /\ \A c \in Calls :
          call[c].dispatched # "none" =>
              (call[c].ran = "send_email_alert" /\ call[c].approved = True)

\* An approving resume of a stored id has been entered and has not yet run
\* its stage: the entry is undecided and nothing was dispatched.
C26_Witness ==
    \E c \in Calls :
        /\ call[c].pc = "stage"
        /\ call[c].approved = True
        /\ call[c].verification_id \in DOMAIN pending
        /\ decided[call[c].verification_id] = 0
        /\ pending[call[c].verification_id].alerts = <<>>
        /\ call[c].dispatched = "none"

\* How often node occurs in the path p
Times_in(p, node) == Cardinality({i \in 1..Len(p) : p[i] = node})

\* C27, as claimed: send_email_alert is executed at most once for a run.  A
\* run executes it at most once itself and not at all if it stored its state
\* for approval; of the resumes of one stored state at most one executes it,
\* however they interleave; and no state ends with more than one alert.
C27_OneAlertPerRun ==
    /\ Times_in(path, "send_email_alert") <= 1
    /\ (RunActive \/ pc = END) => Len(st.alerts) <= 1
    /\ (mode = "web" /\ minted # NoToken) => ~Notified(path)
    /\ \A c, d \in Calls :
          ( /\ c # d
            /\ call[c].verification_id = call[d].verification_id
            /\ call[c].ran = "send_email_alert" ) =>
                call[d].ran # "send_email_alert"
    /\ \A c \in Calls :
          call[c].pc \in {"delete", "returned"} =>
              Len(call[c].state.alerts) <= 1

\* The stage sequences a complete run of the graph of mode m may consist of
Prelude ==
    <<"get_weather", "analyze_disaster", "assess_severity", "data_logging">>

StageOrders(m) ==
    {Prelude \o <<"emergency_response", "send_email_alert">>}
    \cup {Prelude \o <<g, "get_human_verification", t>> :
            g \in {"civil_defense_response", "public_works_response"},
            t \in {"send_email_alert", "handle_no_approval"}
                  \cup (IF m = "web" THEN {"wait_for_approval"} ELSE {})}

\* C28: the stages a run has executed, followed by the one it is about to
\* execute, are the beginning of one of the stage orders, and a run that has
\* ended has executed exactly one of them: fetch, classify, assess, log, one
\* response generator, then human verification on the civil defense and
\* public works paths only, then one of notify, reject or park.  The record
\* data_logging writes has an empty response, no plan being generated yet,
\* and the emergency path reaches send_email_alert without
\* get_human_verification.
C28_StageOrder ==
    /\ RunActive =>
          \E full \in StageOrders(mode) :
              IsPrefix(Append(path, pc), full)
    /\ pc = END => path \in StageOrders(mode)
    /\ pc = "data_logging" =>
          /\ log_data(st).response = ""
          /\ \A i \in 1..Len(path) :
                path[i] \notin {"emergency_response", "civil_defense_response",
                                "public_works_response"}
    /\ ("emergency_response" \in Range(path) /\ pc = END) =>
          /\ Notified(path)
          /\ "get_human_verification" \notin Range(path)

\* A run on the emergency path has ended.
C28_Witness ==
    /\ pc = END
    /\ path = <<"get_weather", "analyze_disaster", "assess_severity",
                "data_logging", "emergency_response", "send_email_alert">>
    /\ st.response = "emergency plan"

\* C29, as claimed: the answer of handle_approval to a resume that returned
\* has email_sent true, and the message 'Email alert sent successfully!',
\* iff the resume was approved and the dispatch of send_email_alert
\* succeeded; after a rejection or a failed dispatch email_sent is false.
C29_ApprovalReport ==
    \A c \in Calls :
        call[c].pc = "returned" =>
            LET answer == handle_approval(call[c].approved, call[c].state)
                sent == call[c].approved = True /\ call[c].dispatched = "ok"
            IN  /\ answer.email_sent <=> sent
                /\ (answer.message = "Email alert sent successfully!") <=> sent
=============================================================================
